---- MODULE Spec2Model ----
(***************************************************************************)
(* Soochi: the deduplication-and-merge core and the stores around it.      *)
(*                                                                         *)
(*   VectorService.process_idea_vectors  (soochi/services/vector_service)  *)
(*   NotionService.update_idea_count / create_idea  (.../notion_service)   *)
(*   URLService.deduplicate_urls / deduplicate_urls_from_all_urls          *)
(*   MongoDBClient and SQLiteClient: seen_urls, batch_jobs                 *)
(*   ContentProcessingPipeline._process_batch / process_batch_results      *)
(*   openai_subscriber.main                                                *)
(*   GeminiService.process_content, OpenAIService.save_and_parse_results   *)
(*   fetch_batch_status.save_and_parse_results (the earlier reader)        *)
(*   ContentProcessingPipeline.process / _process_synchronous              *)
(*                                                                         *)
(* Scores are cosine similarities in hundredths (0.75 is 75); time is in   *)
(* days.  The vector index (Pinecone) and the record store (Notion) are    *)
(* external stores; every call to them either succeeds or raises.          *)
(*                                                                         *)
(* Specifications: Spec (one run after another), SpecConcurrent (two runs  *)
(* interleaved), SpecFilter (the URL filter), SpecLedger (the seen-URL     *)
(* Ledger), SpecBatch (batch mode: publisher and subscriber),              *)
(* SpecExtraction (the idea records of the AI responses), SpecResultFile   *)
(* (the result file of a batch), SpecPipeline (one synchronous run from    *)
(* the feeds to the idea store), SpecRetention (the run next to the purge  *)
(* of old Ledger records), SpecSharedEntry (two runs meeting one entry),   *)
(* SpecMixedModes (synchronous runs, batch runs and the subscriber on one  *)
(* batch_jobs collection).                                                 *)
(***************************************************************************)
EXTENDS Integers, Sequences, FiniteSets, Bags

\* ------------------------------------------------------------------ bounds
MaxBatch == 2      \* longest list of ideas handed to process_idea_vectors
MaxCount == 3      \* largest occurrence count an index entry reaches
MaxPages == 2      \* most pages the record store holds
MaxFeedLen == 3    \* longest list of feed links handed to the URL filter
MaxNow == 9        \* last day the clock reaches
MaxInsert == 2     \* longest url_data_list handed to bulk_insert_seen_urls
MaxConcBatch == 1  \* longest list of ideas of a run that shares the index with another
MaxJobs == 2       \* most batches submitted to OpenAI
MaxPolls == 2      \* most times the results of one batch are handed on
MaxResponseIdeas == 2  \* most idea records in one response of the AI service
MaxLines == 3      \* most lines in the result file of a batch
MaxPipelineFeed == 2  \* longest list of feed links of a pipeline run

\* ------------------------------------------------------- program constants
SIMILARITY_THRESHOLD == 75
TOP_K == 5
RETENTION_DAYS == 7

\* ------------------------------------------------------------------ domains
Procs == {1, 2}
Titles == {"A", "B"}
Embs == 1..3

\* The cosine similarity the index reports between two embeddings: 1 and 2
\* are near (0.81), 2 and 3 are near (0.90), 1 and 3 are exactly at the
\* threshold (0.75).
Sim(a, b) ==
    IF a = b THEN 100
    ELSE LET lo == IF a < b THEN a ELSE b
             hi == IF a < b THEN b ELSE a
         IN  CASE lo = 1 /\ hi = 2 -> 81
               [] lo = 2 /\ hi = 3 -> 90
               [] OTHER -> 75

\* An idea as process_idea_vectors sees it: its title and the embedding the
\* embedding service returns for its problemStatement_solution text.
Ideas == [title : Titles, emb : Embs]
NoIdea == [title |-> "", emb |-> 0]

\* A slot of the vector index; count = 0 marks an id that holds no vector.
NoEntry == [count |-> 0, emb |-> 0, title |-> ""]

VARIABLES
    index,          \* vector index: id -> [count, emb, title]
    notion,         \* record store: bag of pages [title, count]
    pc,             \* per run: position in process_idea_vectors
    todo,           \* per run: ideas of the list not yet taken by the loop
    idea,           \* per run: the idea being processed
    query_result,   \* per run: matches returned by index.query
    match_,         \* per run: position in query_result of the merged match (0: none)
    calls,          \* per run: collaborator calls issued for the current idea
    feed_links,     \* URL filter: input list
    seen_urls_hash, \* URL filter: fingerprints held by the Ledger
    new_urls,       \* URL filter: output of deduplicate_urls
    deduped_urls,   \* URL filter: output of deduplicate_urls_from_all_urls
    refiltered_urls, \* URL filter: output of the filter run on deduped_urls
    fpc,            \* URL filter: position in the filter
    client,         \* Ledger: the client in use ("mongo", "sqlite"; "off": none)
    seen_urls,      \* Ledger: the seen_urls table, url_hash -> record
    now,            \* the clock (utcnow), in days
    ledger_op,      \* Ledger: the last operation, its argument and the table before it
    batch_jobs,     \* the batch_jobs collection, in insertion order
    openai_batches, \* OpenAI: status of the batches created, by batch id
    applied,        \* by batch id: times its results were handed to process_idea_vectors
    bpc,            \* batch-mode run: position in process / _process_batch
    batch_id,       \* batch-mode run: the id submit_batch_job returned (0: none)
    run_before,     \* batch-mode run: batch_jobs as the run found it
    poll,           \* per subscriber: the batch id main fetched and what came of it
    mode,           \* extraction: "gemini" (synchronous), "openai" (batch); "off": none
    responses,      \* extraction: per URL, the idea records of the AI response
    parsed,         \* extraction: the ideas handed to process_idea_vectors
    pnext,          \* extraction: position in parsed of the next idea
    resolved,       \* extraction: the records that were given to the resolver
    ppc,            \* extraction: position in the extraction and the loop
    reader,         \* result file: the function that parses it ("off": none)
    result_file,    \* result file: its lines
    file_ideas,     \* result file: the ideas save_and_parse_results returned
    rpc,            \* result file: position in save_and_parse_results
    stage,          \* pipeline run: position in process ("off": none)
    url_data,       \* pipeline run: url_data_list, the output of extract_url_metadata
    sent,           \* pipeline run: URLs whose content was given to process_content
    sent_before,    \* URLs whose content was given to process_content by earlier runs
    exc,            \* pipeline run: an exception has reached the try of process
    logged          \* pipeline run: the except clause of process has logged the error

vecVars == <<index, notion, pc, todo, idea, query_result, match_, calls>>
urlVars == <<feed_links, seen_urls_hash, new_urls, deduped_urls, refiltered_urls, fpc>>
ledgerVars == <<client, seen_urls, now, ledger_op>>
jobVars == <<batch_jobs, openai_batches, applied, bpc, batch_id, run_before, poll>>
parseVars == <<mode, responses, parsed, pnext, resolved, ppc>>
fileVars == <<reader, result_file, file_ideas, rpc>>
runVars == <<stage, url_data, sent, sent_before, exc, logged>>
restVars == <<fileVars, runVars>>
otherVars == <<ledgerVars, jobVars, parseVars, restVars>>
vars == <<index, notion, pc, todo, idea, query_result, match_, calls,
          feed_links, seen_urls_hash, new_urls, deduped_urls, refiltered_urls, fpc,
          client, seen_urls, now, ledger_op,
          batch_jobs, openai_batches, applied, bpc, batch_id, run_before, poll,
          mode, responses, parsed, pnext, resolved, ppc,
          reader, result_file, file_ideas, rpc,
          stage, url_data, sent, sent_before, exc, logged>>

\* ------------------------------------------------------------ vector index
Min(a, b) == IF a < b THEN a ELSE b

\* Ids that hold a vector.
Present(idx) == {t \in Titles : idx[t].count > 0}

\* One match of index.query(include_metadata=True): id, score and the stored
\* metadata (count, title) as they are at query time.
MatchOf(idx, t, e) ==
    [id |-> t, score |-> Sim(idx[t].emb, e),
     count |-> idx[t].count, title |-> idx[t].title]

\* The sets of ids a true top_k nearest-neighbour query can return.
TopKSets(idx, e) ==
    {S \in SUBSET Present(idx) :
        /\ Cardinality(S) = Min(TOP_K, Cardinality(Present(idx)))
        /\ \A s \in S, t \in Present(idx) \ S : Sim(idx[s].emb, e) >= Sim(idx[t].emb, e)}

\* The orders in which a set of ids can be returned.
Orderings(S) ==
    {f \in [1..Cardinality(S) -> S] : \A a, b \in 1..Cardinality(S) : a # b => f[a] # f[b]}

\* index.query(vector=e, top_k=5, include_metadata=True)['matches']: the order
\* of the matches is the index's choice.
QueryResults(idx, e) ==
    UNION {{[k \in 1..Cardinality(S) |-> MatchOf(idx, f[k], e)] : f \in Orderings(S)} :
              S \in TopKSets(idx, e)}

\* Variants of the loop of handle_similar_ideas: only the first match is looked
\* at; the comparison is >= ; the last match over the threshold wins.
FirstOverThresholdHeadOnly(matches) ==
    IF Len(matches) > 0 /\ matches[1].score > SIMILARITY_THRESHOLD THEN 1 ELSE 0

FirstAtOrOverThreshold(matches) ==
    IF \E k \in 1..Len(matches) : matches[k].score >= SIMILARITY_THRESHOLD
    THEN CHOOSE k \in 1..Len(matches) :
            /\ matches[k].score >= SIMILARITY_THRESHOLD
            /\ \A j \in 1..(k - 1) : matches[j].score < SIMILARITY_THRESHOLD
    ELSE 0

LastOverThreshold(matches) ==
    IF \E k \in 1..Len(matches) : matches[k].score > SIMILARITY_THRESHOLD
    THEN CHOOSE k \in 1..Len(matches) :
            /\ matches[k].score > SIMILARITY_THRESHOLD
            /\ \A j \in (k + 1)..Len(matches) : matches[j].score <= SIMILARITY_THRESHOLD
    ELSE 0

\* handle_similar_ideas, the loop: the position of the first match whose score
\* exceeds the threshold, 0 when the loop falls through to `return False`.
FirstOverThreshold(matches) ==
    IF \E k \in 1..Len(matches) : matches[k].score > SIMILARITY_THRESHOLD
    THEN CHOOSE k \in 1..Len(matches) :
            /\ matches[k].score > SIMILARITY_THRESHOLD
            /\ \A j \in 1..(k - 1) : matches[j].score <= SIMILARITY_THRESHOLD
    ELSE 0

\* Variant of new_count: the count is raised by two.
NewCountByTwo(m) == m.count + 2

\* new_count = match_['metadata']['count'] + 1
NewCount(m) == m.count + 1

\* index.update(id, set_metadata=metadata): the metadata fields are replaced,
\* the stored vector is kept.
IndexUpdate(idx, id, title, count) ==
    [idx EXCEPT ![id] = [count |-> count, emb |-> idx[id].emb, title |-> title]]

\* index.upsert(vectors=[{id: title, metadata: {..., count: 1}, values: embedding}])
IndexUpsert(idx, d) ==
    [idx EXCEPT ![d.title] = [count |-> 1, emb |-> d.emb, title |-> d.title]]

\* One collaborator call in the log of the current idea: the operation, the id
\* or title and the count it was given, whether it returned (ok) or raised, and
\* prev, the count the store held for that id or page just before the call.
Call(op, id, count, ok, prev) ==
    [op |-> op, id |-> id, count |-> count, ok |-> ok, prev |-> prev]

\* ------------------------------------------------------------ record store
\* find_idea_in_notion: the pages whose Title equals title.
PagesOf(pages, title) == {pg \in BagToSet(pages) : pg.title = title}

\* Variant of pages.update: the page's own Count is raised by one.
PageUpdateIncrement(pages, pg, count) ==
    (pages (-) SetToBag({pg}))
        (+) SetToBag({[title |-> pg.title, count |-> pg.count + 1]})

\* pages.update(page_id, properties={"Count": {"number": count}})
PageUpdate(pages, pg, count) ==
    (pages (-) SetToBag({pg})) (+) SetToBag({[title |-> pg.title, count |-> count]})

\* Variant of pages.create: the Count property is left out.
PageCreateNoCount(pages, d) == pages (+) SetToBag({[title |-> d.title, count |-> 0]})

\* pages.create(properties={"Title": title, "Count": {"number": 1}, ...})
PageCreate(pages, d) == pages (+) SetToBag({[title |-> d.title, count |-> 1]})

\* The one idea save_and_parse_results returns for the result file of a batch:
\* the file of a batch is the same at every fetch. Odd batches hold idea A
\* (embedding 1), even batches idea B (embedding 3).
ResultIdea(id) ==
    [title |-> IF id % 2 = 1 THEN "A" ELSE "B", emb |-> IF id % 2 = 1 THEN 1 ELSE 3]

\* What a subscriber holds before it has fetched anything.
NoPoll == [batch_id |-> 0, outcome |-> ""]

\* The ideas the list of a run can hold: the ideas of the result file when the
\* run was started by the subscriber, any idea otherwise.
IdeasOfRun(p) ==
    IF poll[p].outcome = "processing" THEN {ResultIdea(poll[p].batch_id)} ELSE Ideas

\* ------------------------------------------------- process_idea_vectors(p)
\* A run starts: process_idea_vectors is called with a list of n ideas.
StartRun(p) ==
    /\ pc[p] \in {"idle", "raised"}
    /\ \E len \in 0..MaxBatch : todo' = [todo EXCEPT ![p] = len]
    /\ pc' = [pc EXCEPT ![p] = "loop"]
    /\ idea' = [idea EXCEPT ![p] = NoIdea]
    /\ query_result' = [query_result EXCEPT ![p] = <<>>]
    /\ match_' = [match_ EXCEPT ![p] = 0]
    /\ calls' = [calls EXCEPT ![p] = <<>>]
    /\ UNCHANGED <<index, notion>>
    /\ UNCHANGED urlVars
    /\ UNCHANGED otherVars

\* Variant of the loop head: an idea without an embedding is not skipped.
NextIdeaNoSkip(p) ==
    /\ pc[p] = "loop"
    /\ todo[p] > 0
    /\ todo' = [todo EXCEPT ![p] = @ - 1]
    /\ \E d \in IdeasOfRun(p) : idea' = [idea EXCEPT ![p] = d]
    /\ query_result' = [query_result EXCEPT ![p] = <<>>]
    /\ match_' = [match_ EXCEPT ![p] = 0]
    /\ \E embedded \in BOOLEAN :
          /\ pc' = [pc EXCEPT ![p] = "query"]
          /\ calls' = [calls EXCEPT ![p] = <<Call("create_embedding", "", 0, embedded, 0)>>]
    /\ UNCHANGED <<index, notion>>
    /\ UNCHANGED urlVars
    /\ UNCHANGED otherVars

\* One of two runs on the same index starts; each process runs once.
StartConcurrentRun(p) ==
    /\ pc[p] = "idle"
    /\ idea[p] = NoIdea
    /\ \E len \in 1..MaxConcBatch : todo' = [todo EXCEPT ![p] = len]
    /\ pc' = [pc EXCEPT ![p] = "loop"]
    /\ UNCHANGED <<index, notion, idea, query_result, match_, calls>>
    /\ UNCHANGED urlVars
    /\ UNCHANGED otherVars

\* The loop head: the next idea of the list is taken and create_embedding is
\* called; without an embedding the idea is skipped (`continue`).
NextIdea(p) ==
    /\ pc[p] = "loop"
    /\ todo[p] > 0
    /\ todo' = [todo EXCEPT ![p] = @ - 1]
    /\ \E d \in IdeasOfRun(p) : idea' = [idea EXCEPT ![p] = d]
    /\ query_result' = [query_result EXCEPT ![p] = <<>>]
    /\ match_' = [match_ EXCEPT ![p] = 0]
    /\ \E embedded \in BOOLEAN :
          /\ pc' = [pc EXCEPT ![p] = IF embedded THEN "query" ELSE "loop"]
          /\ calls' = [calls EXCEPT ![p] = <<Call("create_embedding", "", 0, embedded, 0)>>]
    /\ UNCHANGED <<index, notion>>
    /\ UNCHANGED urlVars
    /\ UNCHANGED otherVars

\* index.query(vector=idea['embedding'], top_k=5, include_metadata=True)
Query(p) ==
    /\ pc[p] = "query"
    /\ \E r \in QueryResults(index, idea[p].emb) :
          query_result' = [query_result EXCEPT ![p] = r]
    /\ pc' = [pc EXCEPT ![p] = "handle"]
    /\ calls' = [calls EXCEPT ![p] = Append(@, Call("query", "", 0, TRUE, 0))]
    /\ UNCHANGED <<index, notion, todo, idea, match_>>
    /\ UNCHANGED urlVars
    /\ UNCHANGED otherVars

\* handle_similar_ideas up to and including index.update: the first match over
\* the threshold is written back with its count raised by one; an exception of
\* index.update leaves handle_similar_ideas and process_idea_vectors.
HandleSimilarIdeas(p) ==
    /\ pc[p] = "handle"
    /\ LET k == FirstOverThreshold(query_result[p]) IN
       IF k = 0
       THEN /\ pc' = [pc EXCEPT ![p] = "add"]
            /\ UNCHANGED <<index, match_, calls>>
       ELSE LET m == query_result[p][k] IN
            /\ match_' = [match_ EXCEPT ![p] = k]
            /\ \/ /\ NewCount(m) <= MaxCount
                  /\ index' = IndexUpdate(index, m.id, m.title, NewCount(m))
                  /\ calls' = [calls EXCEPT ![p] =
                        Append(@, Call("index.update", m.id, NewCount(m), TRUE,
                                       index[m.id].count))]
                  /\ pc' = [pc EXCEPT ![p] = "notion_update"]
               \/ /\ calls' = [calls EXCEPT ![p] =
                        Append(@, Call("index.update", m.id, NewCount(m), FALSE,
                                       index[m.id].count))]
                  /\ pc' = [pc EXCEPT ![p] = "raised"]
                  /\ UNCHANGED index
    /\ UNCHANGED <<notion, todo, idea, query_result>>
    /\ UNCHANGED urlVars
    /\ UNCHANGED otherVars

\* Variant of the call of update_idea_count: the page is looked up under the
\* title of the incoming idea.
NotionUpdateIdeaCountOwnTitle(p) ==
    /\ pc[p] = "notion_update"
    /\ LET m == query_result[p][match_[p]] IN
       \/ \E pg \in PagesOf(notion, idea[p].title) :
             /\ notion' = PageUpdate(notion, pg, NewCount(m))
             /\ calls' = [calls EXCEPT ![p] =
                   Append(@, Call("notion.update", idea[p].title, NewCount(m), TRUE,
                                  pg.count))]
       \/ /\ calls' = [calls EXCEPT ![p] =
                   Append(@, Call("notion.update", idea[p].title, NewCount(m), FALSE, 0))]
          /\ UNCHANGED notion
    /\ pc' = [pc EXCEPT ![p] = "loop"]
    /\ UNCHANGED <<index, todo, idea, query_result, match_>>
    /\ UNCHANGED urlVars
    /\ UNCHANGED otherVars

\* Variant of update_idea_count: a title without a page gets a new page with
\* the count, and True is returned.
NotionUpdateIdeaCountCreateMissing(p) ==
    /\ pc[p] = "notion_update"
    /\ LET m == query_result[p][match_[p]] IN
       \/ \E pg \in PagesOf(notion, m.title) :
             /\ notion' = PageUpdate(notion, pg, NewCount(m))
             /\ calls' = [calls EXCEPT ![p] =
                   Append(@, Call("notion.update", m.title, NewCount(m), TRUE,
                                  pg.count))]
       \/ /\ PagesOf(notion, m.title) = {}
          /\ BagCardinality(notion) < MaxPages
          /\ notion' = notion (+) SetToBag({[title |-> m.title, count |-> NewCount(m)]})
          /\ calls' = [calls EXCEPT ![p] =
                   Append(@, Call("notion.update", m.title, NewCount(m), TRUE, 0))]
       \/ /\ calls' = [calls EXCEPT ![p] =
                   Append(@, Call("notion.update", m.title, NewCount(m), FALSE, 0))]
          /\ UNCHANGED notion
    /\ pc' = [pc EXCEPT ![p] = "loop"]
    /\ UNCHANGED <<index, todo, idea, query_result, match_>>
    /\ UNCHANGED urlVars
    /\ UNCHANGED otherVars

\* NotionService.update_idea_count(match_['metadata']['title'], new_count), then
\* `return True`: the page found by title gets Count = count; a missing page or
\* an exception gives False, which handle_similar_ideas ignores.
NotionUpdateIdeaCount(p) ==
    /\ pc[p] = "notion_update"
    /\ LET m == query_result[p][match_[p]] IN
       \/ \E pg \in PagesOf(notion, m.title) :
             /\ notion' = PageUpdate(notion, pg, NewCount(m))
             /\ calls' = [calls EXCEPT ![p] =
                   Append(@, Call("notion.update", m.title, NewCount(m), TRUE,
                                  pg.count))]
       \/ /\ calls' = [calls EXCEPT ![p] =
                   Append(@, Call("notion.update", m.title, NewCount(m), FALSE, 0))]
          /\ UNCHANGED notion
    /\ pc' = [pc EXCEPT ![p] = "loop"]
    /\ UNCHANGED <<index, todo, idea, query_result, match_>>
    /\ UNCHANGED urlVars
    /\ UNCHANGED otherVars

\* Variant of add_new_idea_to_db: the upsert waits while another run is between
\* its query and its write.
AddNewIdeaToDbExclusive(p) ==
    /\ pc[p] = "add"
    /\ \A q \in Procs \ {p} : pc[q] \notin {"handle", "add"}
    /\ \/ /\ index' = IndexUpsert(index, idea[p])
          /\ calls' = [calls EXCEPT ![p] =
                Append(@, Call("index.upsert", idea[p].title, 1, TRUE,
                               index[idea[p].title].count))]
          /\ pc' = [pc EXCEPT ![p] = "notion_create"]
       \/ /\ calls' = [calls EXCEPT ![p] =
                Append(@, Call("index.upsert", idea[p].title, 1, FALSE,
                               index[idea[p].title].count))]
          /\ pc' = [pc EXCEPT ![p] = "raised"]
          /\ UNCHANGED index
    /\ UNCHANGED <<notion, todo, idea, query_result, match_>>
    /\ UNCHANGED urlVars
    /\ UNCHANGED otherVars

\* Variant of add_new_idea_to_db: the exception of index.upsert is swallowed and
\* the record store is written all the same.
AddNewIdeaToDbSwallow(p) ==
    /\ pc[p] = "add"
    /\ \/ /\ index' = IndexUpsert(index, idea[p])
          /\ calls' = [calls EXCEPT ![p] =
                Append(@, Call("index.upsert", idea[p].title, 1, TRUE,
                               index[idea[p].title].count))]
       \/ /\ calls' = [calls EXCEPT ![p] =
                Append(@, Call("index.upsert", idea[p].title, 1, FALSE,
                               index[idea[p].title].count))]
          /\ UNCHANGED index
    /\ pc' = [pc EXCEPT ![p] = "notion_create"]
    /\ UNCHANGED <<notion, todo, idea, query_result, match_>>
    /\ UNCHANGED urlVars
    /\ UNCHANGED otherVars

\* add_new_idea_to_db up to and including index.upsert: an exception is logged
\* and raised again, and leaves process_idea_vectors.
AddNewIdeaToDb(p) ==
    /\ pc[p] = "add"
    /\ \/ /\ index' = IndexUpsert(index, idea[p])
          /\ calls' = [calls EXCEPT ![p] =
                Append(@, Call("index.upsert", idea[p].title, 1, TRUE,
                               index[idea[p].title].count))]
          /\ pc' = [pc EXCEPT ![p] = "notion_create"]
       \/ /\ calls' = [calls EXCEPT ![p] =
                Append(@, Call("index.upsert", idea[p].title, 1, FALSE,
                               index[idea[p].title].count))]
          /\ pc' = [pc EXCEPT ![p] = "raised"]
          /\ UNCHANGED index
    /\ UNCHANGED <<notion, todo, idea, query_result, match_>>
    /\ UNCHANGED urlVars
    /\ UNCHANGED otherVars

\* Variant of create_idea: the exception of pages.create is raised again.
NotionCreateIdeaRaises(p) ==
    /\ pc[p] = "notion_create"
    /\ \/ /\ BagCardinality(notion) < MaxPages
          /\ notion' = PageCreate(notion, idea[p])
          /\ calls' = [calls EXCEPT ![p] =
                Append(@, Call("notion.create", idea[p].title, 1, TRUE, 0))]
          /\ pc' = [pc EXCEPT ![p] = "loop"]
       \/ /\ calls' = [calls EXCEPT ![p] =
                Append(@, Call("notion.create", idea[p].title, 1, FALSE, 0))]
          /\ pc' = [pc EXCEPT ![p] = "raised"]
          /\ UNCHANGED notion
    /\ UNCHANGED <<index, todo, idea, query_result, match_>>
    /\ UNCHANGED urlVars
    /\ UNCHANGED otherVars

\* NotionService.create_idea(idea, mongodb_client): a page with Count = 1 is
\* created; an exception is logged and gives False, which add_new_idea_to_db
\* ignores.
NotionCreateIdea(p) ==
    /\ pc[p] = "notion_create"
    /\ \/ /\ BagCardinality(notion) < MaxPages
          /\ notion' = PageCreate(notion, idea[p])
          /\ calls' = [calls EXCEPT ![p] =
                Append(@, Call("notion.create", idea[p].title, 1, TRUE, 0))]
       \/ /\ calls' = [calls EXCEPT ![p] =
                Append(@, Call("notion.create", idea[p].title, 1, FALSE, 0))]
          /\ UNCHANGED notion
    /\ pc' = [pc EXCEPT ![p] = "loop"]
    /\ UNCHANGED <<index, todo, idea, query_result, match_>>
    /\ UNCHANGED urlVars
    /\ UNCHANGED otherVars

\* The list is exhausted: process_idea_vectors returns.
Return(p) ==
    /\ pc[p] = "loop"
    /\ todo[p] = 0
    /\ pc' = [pc EXCEPT ![p] = "idle"]
    /\ UNCHANGED <<index, notion, todo, idea, query_result, match_, calls>>
    /\ UNCHANGED urlVars
    /\ UNCHANGED otherVars

Step(p) ==
    \/ StartRun(p)
    \/ NextIdea(p)
    \/ Query(p)
    \/ HandleSimilarIdeas(p)
    \/ NotionUpdateIdeaCount(p)
    \/ AddNewIdeaToDb(p)
    \/ NotionCreateIdea(p)
    \/ Return(p)

\* --------------------------------------------------------------- URL filter
\* Raw URLs; URL 8 is a second spelling of URL 1 (the same canonical URL).
Urls == 1..8

\* hash_url(url): the fingerprint of the canonicalized URL.
hash_url(u) == IF u = 8 THEN 101 ELSE 100 + u

Fingerprints == {hash_url(u) : u \in Urls}

\* The loop of deduplicate_urls from position k on, with the hashes seen so
\* far and the URLs kept so far.
RECURSIVE DedupLoop(_, _, _, _)
DedupLoop(links, k, seen_hashes, kept) ==
    IF k > Len(links) THEN kept
    ELSE IF hash_url(links[k]) \notin seen_hashes
         THEN DedupLoop(links, k + 1, seen_hashes \cup {hash_url(links[k])},
                        Append(kept, links[k]))
         ELSE DedupLoop(links, k + 1, seen_hashes, kept)

\* Variant of deduplicate_urls: duplicates are recognised by the raw URL.
RECURSIVE DedupLoopByUrl(_, _, _, _)
DedupLoopByUrl(links, k, seen, kept) ==
    IF k > Len(links) THEN kept
    ELSE IF links[k] \notin seen
         THEN DedupLoopByUrl(links, k + 1, seen \cup {links[k]}, Append(kept, links[k]))
         ELSE DedupLoopByUrl(links, k + 1, seen, kept)

deduplicate_urls_by_url(links) == DedupLoopByUrl(links, 1, {}, <<>>)

\* URLService.deduplicate_urls(feed_links)
deduplicate_urls(links) == DedupLoop(links, 1, {}, <<>>)

\* Variant of deduplicate_urls_from_all_urls: the comprehension starts at the
\* second URL.
deduplicate_urls_from_second(urls, seen) ==
    LET Unseen(u) == hash_url(u) \notin seen
    IN  IF urls = <<>> THEN <<>> ELSE SelectSeq(Tail(urls), Unseen)

\* URLService.deduplicate_urls_from_all_urls(new_urls, seen_urls_hash)
deduplicate_urls_from_all_urls(urls, seen) ==
    LET Unseen(u) == hash_url(u) \notin seen IN SelectSeq(urls, Unseen)

\* The scenario of ten feed links: seven URLs, three of them repeated.
TenLinks == <<1, 2, 3, 1, 4, 5, 2, 6, 7, 3>>

\* The lists of feed links the filter is run on.
FeedInputs == UNION {[1..len -> Urls] : len \in 0..MaxFeedLen} \cup {TenLinks}

\* ContentProcessingPipeline.process: new_urls = deduplicate_urls(feed_links)
ProcessDeduplicate ==
    /\ fpc = "fetched"
    /\ new_urls' = deduplicate_urls(feed_links)
    /\ fpc' = "deduped"
    /\ UNCHANGED <<feed_links, seen_urls_hash, deduped_urls, refiltered_urls>>
    /\ UNCHANGED vecVars
    /\ UNCHANGED otherVars

\* ContentProcessingPipeline.process:
\* deduped_urls = deduplicate_urls_from_all_urls(new_urls, seen_urls_hash)
ProcessFilterSeen ==
    /\ fpc = "deduped"
    /\ deduped_urls' = deduplicate_urls_from_all_urls(new_urls, seen_urls_hash)
    /\ fpc' = "filtered"
    /\ UNCHANGED <<feed_links, seen_urls_hash, new_urls, refiltered_urls>>
    /\ UNCHANGED vecVars
    /\ UNCHANGED otherVars

\* The filter of process (deduplicate_urls, then deduplicate_urls_from_all_urls
\* against the same seen_urls_hash) run on its own output.
ProcessFilterAgain ==
    /\ fpc = "filtered"
    /\ refiltered_urls' =
          deduplicate_urls_from_all_urls(deduplicate_urls(deduped_urls), seen_urls_hash)
    /\ fpc' = "refiltered"
    /\ UNCHANGED <<feed_links, seen_urls_hash, new_urls, deduped_urls>>
    /\ UNCHANGED vecVars
    /\ UNCHANGED otherVars

\* ------------------------------------------------------------ seen-URL Ledger
\* The URLs whose records the Ledger is exercised with (1 and 8 share a hash).
LedgerUrls == {1, 2, 8}
LedgerHashes == {hash_url(u) : u \in LedgerUrls}

\* A slot of the seen_urls table that holds no record.
Absent == [url |-> 0, created_at |-> -1]
EmptyTable == [h \in LedgerHashes |-> Absent]

\* One entry of url_data_list, as extract_url_metadata builds it.
UrlData(u) == [url_hash |-> hash_url(u), url |-> u]

\* The lists handed to bulk_insert_seen_urls.
UrlDataLists ==
    UNION {[1..len -> {UrlData(u) : u \in LedgerUrls}] : len \in 0..MaxInsert}

\* The documents bulk_insert_seen_urls builds: created_at = utcnow().
Documents(url_data_list, t) ==
    [k \in 1..Len(url_data_list) |->
        [url_hash |-> url_data_list[k].url_hash, url |-> url_data_list[k].url,
         created_at |-> t]]

\* Variant of insert_many: a document whose url_hash is held replaces the record.
RECURSIVE InsertManyReplace(_, _, _, _)
InsertManyReplace(table, documents, k, errors) ==
    IF k > Len(documents) THEN [table |-> table, errors |-> errors]
    ELSE InsertManyReplace(
             [table EXCEPT ![documents[k].url_hash] =
                 [url |-> documents[k].url, created_at |-> documents[k].created_at]],
             documents, k + 1, errors)

\* seen_urls.insert_many(documents, ordered=False) under the unique index on
\* url_hash: every document is tried; one whose url_hash is held is a write
\* error, the others are inserted. errors counts the write errors, which
\* insert_many raises as one exception after the last document.
RECURSIVE InsertMany(_, _, _, _)
InsertMany(table, documents, k, errors) ==
    IF k > Len(documents) THEN [table |-> table, errors |-> errors]
    ELSE IF table[documents[k].url_hash] = Absent
         THEN InsertMany(
                  [table EXCEPT ![documents[k].url_hash] =
                      [url |-> documents[k].url, created_at |-> documents[k].created_at]],
                  documents, k + 1, errors)
         ELSE InsertMany(table, documents, k + 1, errors + 1)

\* cursor.executemany("INSERT INTO seen_urls (url_hash) VALUES (?)", rows) with
\* url_hash the PRIMARY KEY and created_at DEFAULT CURRENT_TIMESTAMP: the rows
\* are inserted in order; the first row whose url_hash is held raises
\* IntegrityError and ends the call, the rows before it stay in the open
\* transaction.
RECURSIVE ExecuteMany(_, _, _, _)
ExecuteMany(table, url_hashes, k, t) ==
    IF k > Len(url_hashes) THEN [table |-> table, raised |-> FALSE]
    ELSE IF table[url_hashes[k]] = Absent
         THEN ExecuteMany([table EXCEPT ![url_hashes[k]] = [url |-> 0, created_at |-> t]],
                          url_hashes, k + 1, t)
         ELSE [table |-> table, raised |-> TRUE]

\* Variant of the purge: the metadata of an old record is deleted, its
\* url_hash stays.
DeleteMetadataOlderThan(table, cutoff_date) ==
    [h \in DOMAIN table |->
        IF table[h] # Absent /\ table[h].created_at < cutoff_date
        THEN [url |-> 0, created_at |-> table[h].created_at] ELSE table[h]]

\* Variant of the purge: records at the cutoff are deleted too.
DeleteOlderThanOrAt(table, cutoff_date) ==
    [h \in DOMAIN table |->
        IF table[h] # Absent /\ table[h].created_at <= cutoff_date THEN Absent ELSE table[h]]

\* delete_many({"created_at": {"$lt": cutoff_date}}) and
\* DELETE FROM seen_urls WHERE created_at < DATETIME('now', '-7 days')
DeleteOlderThan(table, cutoff_date) ==
    [h \in DOMAIN table |->
        IF table[h] # Absent /\ table[h].created_at < cutoff_date THEN Absent ELSE table[h]]

\* The last Ledger operation: its name, its argument, the table before it, the
\* time of the call and whether the call raised.
LedgerOp(op, arg, before, at, raised) ==
    [op |-> op, arg |-> arg, before |-> before, at |-> at, raised |-> raised]
NoLedgerOp == LedgerOp("", <<>>, EmptyTable, 0, FALSE)

\* Time passes.
Tick ==
    /\ client # "off"
    /\ now < MaxNow
    /\ now' = now + 1
    /\ UNCHANGED <<client, seen_urls, ledger_op>>
    /\ UNCHANGED <<vecVars, urlVars, jobVars, parseVars, restVars>>

\* MongoDBClient.bulk_insert_seen_urls(url_data_list): an empty list returns at
\* once; the exception of insert_many is caught and logged.
BulkInsertSeenUrls ==
    /\ client = "mongo"
    /\ \E url_data_list \in UrlDataLists :
          /\ seen_urls' =
                IF url_data_list = <<>> THEN seen_urls
                ELSE InsertMany(seen_urls, Documents(url_data_list, now), 1, 0).table
          /\ ledger_op' = LedgerOp("bulk_insert", url_data_list, seen_urls, now, FALSE)
    /\ UNCHANGED <<client, now>>
    /\ UNCHANGED <<vecVars, urlVars, jobVars, parseVars, restVars>>

\* MongoDBClient.bulk_delete_seen_urls(): cutoff_date = utcnow() - 7 days.
BulkDeleteSeenUrls ==
    /\ client = "mongo"
    /\ seen_urls' = DeleteOlderThan(seen_urls, now - RETENTION_DAYS)
    /\ ledger_op' = LedgerOp("bulk_delete", <<>>, seen_urls, now, FALSE)
    /\ UNCHANGED <<client, now>>
    /\ UNCHANGED <<vecVars, urlVars, jobVars, parseVars, restVars>>

\* SQLiteClient.bulk_insert_seen_urls(url_hashes): executemany, then commit.
\* IntegrityError is not caught and the commit is not reached: the rows of the
\* open transaction are dropped when the connection is closed, or written by
\* the next commit on it.
SQLiteBulkInsertSeenUrls ==
    /\ client = "sqlite"
    /\ \E url_data_list \in UrlDataLists :
          LET url_hashes == [k \in 1..Len(url_data_list) |-> url_data_list[k].url_hash]
              r == ExecuteMany(seen_urls, url_hashes, 1, now)
          IN  /\ \/ seen_urls' = r.table
                 \/ r.raised /\ seen_urls' = seen_urls
              /\ ledger_op' = LedgerOp("bulk_insert", url_data_list, seen_urls, now, r.raised)
    /\ UNCHANGED <<client, now>>
    /\ UNCHANGED <<vecVars, urlVars, jobVars, parseVars, restVars>>

\* SQLiteClient.bulk_delete_seen_urls()
SQLiteBulkDeleteSeenUrls ==
    /\ client = "sqlite"
    /\ seen_urls' = DeleteOlderThan(seen_urls, now - RETENTION_DAYS)
    /\ ledger_op' = LedgerOp("bulk_delete", <<>>, seen_urls, now, FALSE)
    /\ UNCHANGED <<client, now>>
    /\ UNCHANGED <<vecVars, urlVars, jobVars, parseVars, restVars>>

\* ------------------------------------------------------------ batch jobs
\* The lists of new URLs a batch-mode run is left with after the filter.
BatchInputs == {<<>>, <<1>>}

\* get_latest_batch_id(): the batch_id of the record with the latest
\* created_at, 0 (None) when the collection is empty.
LatestBatchId(jobs) ==
    IF jobs = <<>> THEN 0
    ELSE LET k == CHOOSE k \in 1..Len(jobs) :
                     \A j \in 1..Len(jobs) : jobs[j].created_at <= jobs[k].created_at
         IN  jobs[k].batch_id

\* process() in batch mode up to the call of _process_batch: with no new URL
\* the run returns ("No new URLs to process").
ProcessBatchMode ==
    /\ bpc \in {"idle", "done", "raised"}
    /\ \E urls \in BatchInputs :
          /\ deduped_urls' = urls
          /\ bpc' = IF urls = <<>> THEN "done" ELSE "submit"
    /\ batch_id' = 0
    /\ run_before' = batch_jobs
    /\ UNCHANGED <<batch_jobs, openai_batches, applied, poll>>
    /\ UNCHANGED <<feed_links, seen_urls_hash, new_urls, refiltered_urls, fpc>>
    /\ UNCHANGED <<vecVars, ledgerVars, parseVars, restVars>>

\* _process_batch up to submit_batch_job: the tasks are written to the batch
\* file and submitted; batches.create gives the batch a new id. An exception
\* (before or after the batch was created) leaves _process_batch and process.
SubmitBatchJob ==
    /\ bpc = "submit"
    /\ \/ /\ Len(openai_batches) < MaxJobs
          /\ openai_batches' = Append(openai_batches, "in_progress")
          /\ applied' = Append(applied, 0)
          /\ \/ /\ batch_id' = Len(openai_batches) + 1
                /\ bpc' = "store"
             \/ /\ bpc' = "raised"
                /\ UNCHANGED batch_id
       \/ /\ bpc' = "raised"
          /\ UNCHANGED <<openai_batches, applied, batch_id>>
    /\ UNCHANGED <<batch_jobs, run_before, poll>>
    /\ UNCHANGED <<vecVars, urlVars, ledgerVars, parseVars, restVars>>

\* Variant of create_batch_job: the latest record is overwritten.
CreateBatchJobReplaceLatest ==
    /\ bpc = "store"
    /\ \/ /\ batch_jobs' =
                IF batch_jobs = <<>>
                THEN <<[batch_id |-> batch_id, created_at |-> now]>>
                ELSE [batch_jobs EXCEPT ![Len(batch_jobs)] =
                         [batch_id |-> batch_id, created_at |-> now]]
          /\ now' = now + 1
          /\ bpc' = "done"
       \/ /\ bpc' = "raised"
          /\ UNCHANGED <<batch_jobs, now>>
    /\ UNCHANGED <<openai_batches, applied, batch_id, run_before, poll>>
    /\ UNCHANGED <<client, seen_urls, ledger_op>>
    /\ UNCHANGED <<vecVars, urlVars, parseVars, restVars>>

\* mongodb_client.create_batch_job(batch_id): insert_one({batch_id, created_at:
\* utcnow()}); the clock has moved on at the next call. An exception of
\* insert_one leaves _process_batch and process.
CreateBatchJob ==
    /\ bpc = "store"
    /\ \/ /\ batch_jobs' = Append(batch_jobs, [batch_id |-> batch_id, created_at |-> now])
          /\ now' = now + 1
          /\ bpc' = "done"
       \/ /\ bpc' = "raised"
          /\ UNCHANGED <<batch_jobs, now>>
    /\ UNCHANGED <<openai_batches, applied, batch_id, run_before, poll>>
    /\ UNCHANGED <<client, seen_urls, ledger_op>>
    /\ UNCHANGED <<vecVars, urlVars, parseVars, restVars>>

\* OpenAI finishes a batch.
BatchCompletes ==
    /\ \E id \in 1..Len(openai_batches) :
          /\ openai_batches[id] = "in_progress"
          /\ openai_batches' = [openai_batches EXCEPT ![id] = "completed"]
    /\ UNCHANGED <<batch_jobs, applied, bpc, batch_id, run_before, poll>>
    /\ UNCHANGED <<vecVars, urlVars, ledgerVars, parseVars, restVars>>

\* openai_subscriber.main: the latest batch id is fetched; without one main
\* returns; process_batch_results returns when the batch has no result file
\* yet, and otherwise hands the ideas of the file to process_idea_vectors.
SubscriberMain(p) ==
    /\ pc[p] \in {"idle", "raised"}
    /\ LET latest == LatestBatchId(batch_jobs) IN
       \/ /\ latest = 0
          /\ poll' = [poll EXCEPT ![p] = [batch_id |-> 0, outcome |-> "no_jobs"]]
          /\ UNCHANGED <<pc, todo, idea, query_result, match_, calls, applied>>
       \/ /\ latest > 0
          /\ openai_batches[latest] # "completed"
          /\ poll' = [poll EXCEPT ![p] = [batch_id |-> latest, outcome |-> "no_result"]]
          /\ UNCHANGED <<pc, todo, idea, query_result, match_, calls, applied>>
       \/ /\ latest > 0
          /\ openai_batches[latest] = "completed"
          /\ applied[latest] < MaxPolls
          /\ poll' = [poll EXCEPT ![p] = [batch_id |-> latest, outcome |-> "processing"]]
          /\ applied' = [applied EXCEPT ![latest] = @ + 1]
          /\ pc' = [pc EXCEPT ![p] = "loop"]
          /\ todo' = [todo EXCEPT ![p] = 1]
          /\ idea' = [idea EXCEPT ![p] = NoIdea]
          /\ query_result' = [query_result EXCEPT ![p] = <<>>]
          /\ match_' = [match_ EXCEPT ![p] = 0]
          /\ calls' = [calls EXCEPT ![p] = <<>>]
    /\ UNCHANGED <<index, notion>>
    /\ UNCHANGED <<batch_jobs, openai_batches, bpc, batch_id, run_before>>
    /\ UNCHANGED <<urlVars, ledgerVars, parseVars, restVars>>

\* openai_subscriber.main when the latest record holds an id OpenAI never
\* issued ("gemini-<timestamp>"): batches.retrieve(batch_id) raises, which
\* process_batch_results and main log and raise again.
SubscriberMainUnknownBatch(p) ==
    /\ pc[p] \in {"idle", "raised"}
    /\ LatestBatchId(batch_jobs) < 0
    /\ poll' = [poll EXCEPT ![p] =
                   [batch_id |-> LatestBatchId(batch_jobs), outcome |-> "raised"]]
    /\ UNCHANGED <<batch_jobs, openai_batches, applied, bpc, batch_id, run_before>>
    /\ UNCHANGED <<vecVars, urlVars, ledgerVars, parseVars, restVars>>

\* ------------------------------------------------------------ idea extraction
\* The URLs whose content is given to the AI service in one run.
ResponseUrls == 1..2

\* What an idea record of a response can lack: nothing; title (read at the
\* head of the loop of process_idea_vectors, as problemStatement and solution
\* are); type (read, as the other fields are, only by add_new_idea_to_db).
MissingFields == {"none", "title", "type"}

\* The idea records of one response.
ResponseLists == UNION {[1..len -> MissingFields] : len \in 0..MaxResponseIdeas}

\* The records of the response to URL r, each with its place.
RawRecords(resp, r) ==
    [k \in 1..Len(resp[r]) |-> [url |-> r, pos |-> k, missing |-> resp[r][k]]]

\* GeminiService.process_content: Response(**parsed_response) validates every
\* idea of the response; one record that lacks a required field fails the
\* validation of the response, which is logged, and [] is returned.
GeminiProcessContent(resp, r) ==
    IF \E k \in 1..Len(resp[r]) : resp[r][k] # "none" THEN <<>> ELSE RawRecords(resp, r)

\* OpenAIService.save_and_parse_results, one line of the result file: every
\* idea of idea_data['output'] is appended as it is.
ParseResultLine(resp, r) == RawRecords(resp, r)

\* all_ideas.extend(ideas) over the URLs (Gemini); the loop over the lines of
\* the result file (OpenAI).
RECURSIVE AllIdeas(_, _, _)
AllIdeas(m, resp, r) ==
    IF r \notin ResponseUrls THEN <<>>
    ELSE (IF m = "gemini" THEN GeminiProcessContent(resp, r) ELSE ParseResultLine(resp, r))
             \o AllIdeas(m, resp, r + 1)

\* _process_synchronous / process_batch_results up to the call of
\* process_idea_vectors.
ExtractIdeas ==
    /\ ppc = "extract"
    /\ parsed' = AllIdeas(mode, responses, 1)
    /\ pnext' = 1
    /\ ppc' = "loop"
    /\ UNCHANGED <<mode, responses, resolved>>
    /\ UNCHANGED <<vecVars, urlVars, ledgerVars, jobVars, restVars>>

\* process_idea_vectors, the head of the loop: idea['title'],
\* idea['problemStatement'] and idea['solution'] are read; a missing key raises
\* KeyError, which nothing catches. Otherwise the idea is embedded and given to
\* the resolver (index.query, handle_similar_ideas).
ReadIdeaFields ==
    /\ ppc = "loop"
    /\ pnext <= Len(parsed)
    /\ IF parsed[pnext].missing = "title"
       THEN /\ ppc' = "raised"
            /\ UNCHANGED resolved
       ELSE /\ ppc' = "resolver"
            /\ resolved' = resolved \cup {parsed[pnext]}
    /\ UNCHANGED <<mode, responses, parsed, pnext>>
    /\ UNCHANGED <<vecVars, urlVars, ledgerVars, jobVars, restVars>>

\* The decision of the resolver, left open here: on a Merge no further field of
\* the idea is read; on New add_new_idea_to_db reads every field, and a missing
\* key raises KeyError, which is logged and raised again.
ResolveRawIdea ==
    /\ ppc = "resolver"
    /\ \/ /\ pnext' = pnext + 1
          /\ ppc' = "loop"
       \/ IF parsed[pnext].missing = "type"
          THEN /\ ppc' = "raised"
               /\ UNCHANGED pnext
          ELSE /\ pnext' = pnext + 1
               /\ ppc' = "loop"
    /\ UNCHANGED <<mode, responses, parsed, resolved>>
    /\ UNCHANGED <<vecVars, urlVars, ledgerVars, jobVars, restVars>>

\* The list is exhausted: process_idea_vectors returns.
ExtractionReturn ==
    /\ ppc = "loop"
    /\ pnext > Len(parsed)
    /\ ppc' = "done"
    /\ UNCHANGED <<mode, responses, parsed, pnext, resolved>>
    /\ UNCHANGED <<vecVars, urlVars, ledgerVars, jobVars, restVars>>

\* ------------------------------------------------------------ result file
\* What a line of the result file can be: the response to one task with one
\* idea in its output ("ok"); a response whose output is empty ("empty"); a
\* line that is no JSON ("bad_line"); a line whose message content is no JSON
\* ("bad_content").
LineKinds == {"ok", "empty", "bad_line", "bad_content"}

\* The result files save_and_parse_results is given.
ResultFiles == UNION {[1..len -> LineKinds] : len \in 0..MaxLines}

\* OpenAIService.save_and_parse_results, the loop over the lines from line k
\* on: each line is parsed inside try/except; the idea of a line that parses is
\* appended, an exception is logged and the loop goes on with the next line.
RECURSIVE ParseLines(_, _, _)
ParseLines(lines, k, ideas) ==
    IF k > Len(lines) THEN ideas
    ELSE IF lines[k] = "ok" THEN ParseLines(lines, k + 1, Append(ideas, [line |-> k]))
         ELSE ParseLines(lines, k + 1, ideas)

\* fetch_batch_status.save_and_parse_results: json.loads(line.strip()) over all
\* lines, then json.loads of the content of every result, none inside a try;
\* the first exception leaves the function, otherwise the ideas of the outputs
\* are returned.
LegacyParseLines(lines) ==
    IF \E k \in 1..Len(lines) : lines[k] \in {"bad_line", "bad_content"}
    THEN [raised |-> TRUE, ideas |-> <<>>]
    ELSE [raised |-> FALSE, ideas |-> ParseLines(lines, 1, <<>>)]

\* OpenAIService.save_and_parse_results(result_file_id)
SaveAndParseResults ==
    /\ reader = "OpenAIService"
    /\ rpc = "fetched"
    /\ file_ideas' = ParseLines(result_file, 1, <<>>)
    /\ rpc' = "returned"
    /\ UNCHANGED <<reader, result_file>>
    /\ UNCHANGED <<vecVars, urlVars, ledgerVars, jobVars, parseVars, runVars>>

\* fetch_batch_status.save_and_parse_results(result_file_id)
LegacySaveAndParseResults ==
    /\ reader = "fetch_batch_status"
    /\ rpc = "fetched"
    /\ LET r == LegacyParseLines(result_file) IN
          /\ file_ideas' = r.ideas
          /\ rpc' = IF r.raised THEN "raised" ELSE "returned"
    /\ UNCHANGED <<reader, result_file>>
    /\ UNCHANGED <<vecVars, urlVars, ledgerVars, jobVars, parseVars, runVars>>

\* ------------------------------------------------------------ pipeline run
\* The URLs the feeds of a pipeline run hold.
PipelineUrls == {1, 2}

\* The lists of feed links fetch_feeds returns.
PipelineFeeds == UNION {[1..len -> PipelineUrls] : len \in 0..MaxPipelineFeed}

\* The elements of seq at the positions in P, in the order of seq.
KeepAt(seq, P) ==
    LET F[k \in 0..Len(seq)] ==
            IF k = 0 THEN <<>>
            ELSE IF k \in P THEN Append(F[k - 1], seq[k]) ELSE F[k - 1]
    IN  F[Len(seq)]

\* fetch_seen_urls_hash(): the url_hash of every record of seen_urls.
FetchSeenUrlsHash(table) == {h \in DOMAIN table : table[h] # Absent}

\* The batch_id _process_synchronous stores: "gemini-<timestamp>" (below 0;
\* the ids of OpenAI batches are above 0).
GeminiId(t) == -(t + 1)

\* process(), lines 53-58: fetch_feeds and deduplicate_urls. An exception of
\* fetch_feeds reaches the try of process.
ProcessFetchFeeds ==
    /\ stage \in {"idle", "returned", "raised"}
    /\ sent_before' = sent_before \cup sent
    /\ sent' = {}
    /\ url_data' = <<>>
    /\ logged' = FALSE
    /\ \/ /\ \E links \in PipelineFeeds :
                /\ feed_links' = links
                /\ new_urls' = deduplicate_urls(links)
          /\ stage' = "seen"
          /\ exc' = FALSE
       \/ /\ stage' = "except"
          /\ exc' = TRUE
          /\ UNCHANGED <<feed_links, new_urls>>
    /\ UNCHANGED <<seen_urls_hash, deduped_urls, refiltered_urls, fpc>>
    /\ UNCHANGED <<vecVars, ledgerVars, jobVars, parseVars, fileVars>>

\* process(), lines 60-68: fetch_seen_urls_hash and
\* deduplicate_urls_from_all_urls; with no new URL process returns.
ProcessFetchSeenUrls ==
    /\ stage = "seen"
    /\ \/ /\ seen_urls_hash' = FetchSeenUrlsHash(seen_urls)
          /\ deduped_urls' = deduplicate_urls_from_all_urls(new_urls, seen_urls_hash')
          /\ stage' = IF deduped_urls' = <<>> THEN "returned" ELSE "metadata"
          /\ UNCHANGED exc
       \/ /\ stage' = "except"
          /\ exc' = TRUE
          /\ UNCHANGED <<seen_urls_hash, deduped_urls>>
    /\ UNCHANGED <<feed_links, new_urls, refiltered_urls, fpc>>
    /\ UNCHANGED <<url_data, sent, sent_before, logged>>
    /\ UNCHANGED <<vecVars, ledgerVars, jobVars, parseVars, fileVars>>

\* url_data_list = extract_url_metadata(deduped_urls): a URL whose page could not be fetched
\* (fetch_url returned nothing, or an exception, which is logged) gets no entry.
ProcessExtractUrlMetadata ==
    /\ stage = "metadata"
    /\ \E P \in SUBSET (1..Len(deduped_urls)) :
          LET fetched == KeepAt(deduped_urls, P) IN
          url_data' = [k \in 1..Len(fetched) |-> UrlData(fetched[k])]
    /\ stage' = "insert"
    /\ UNCHANGED <<sent, sent_before, exc, logged>>
    /\ UNCHANGED <<vecVars, urlVars, ledgerVars, jobVars, parseVars, fileVars>>

\* process(), lines 73-75: MongoDBClient() may raise; bulk_insert_seen_urls
\* inserts the documents, or insert_many fails as a whole, which is caught and
\* logged inside bulk_insert_seen_urls.
ProcessBulkInsertSeenUrls ==
    /\ stage = "insert"
    /\ \/ /\ seen_urls' =
                IF url_data = <<>> THEN seen_urls
                ELSE InsertMany(seen_urls, Documents(url_data, now), 1, 0).table
          /\ ledger_op' = LedgerOp("bulk_insert", url_data, seen_urls, now, FALSE)
          /\ stage' = "content"
          /\ UNCHANGED exc
       \/ /\ stage' = "content"
          /\ UNCHANGED <<seen_urls, ledger_op, exc>>
       \/ /\ stage' = "except"
          /\ exc' = TRUE
          /\ UNCHANGED <<seen_urls, ledger_op>>
    /\ UNCHANGED <<client, now>>
    /\ UNCHANGED <<url_data, sent, sent_before, logged>>
    /\ UNCHANGED <<vecVars, urlVars, jobVars, parseVars, fileVars>>

\* process() in synchronous mode up to the call of _process_synchronous, the
\* filter and the Ledger left aside: with no new URL the run returns.
ProcessSynchronousMode ==
    /\ stage \in {"idle", "returned", "raised"}
    /\ sent_before' = sent_before \cup sent
    /\ sent' = {}
    /\ logged' = FALSE
    /\ exc' = FALSE
    /\ \E urls \in BatchInputs :
          /\ deduped_urls' = urls
          /\ stage' = IF urls = <<>> THEN "returned" ELSE "content"
    /\ UNCHANGED url_data
    /\ UNCHANGED <<feed_links, seen_urls_hash, new_urls, refiltered_urls, fpc>>
    /\ UNCHANGED <<vecVars, ledgerVars, jobVars, parseVars, fileVars>>

\* _process_synchronous(deduped_urls): every URL is fetched again; one without
\* content is passed over, the content of the others is given to
\* process_content. Then create_batch_job("gemini-<timestamp>") and
\* process_idea_vectors(all_ideas), the loop of Spec, of which only the outcome
\* is kept here: it returns, or an exception leaves it. An exception (of the
\* prompt file, of MongoDBClient(), of create_batch_job, of
\* process_idea_vectors) reaches the try of process.
ProcessSynchronous ==
    /\ stage = "content"
    /\ \E P \in SUBSET (1..Len(deduped_urls)) :
          LET with_content == KeepAt(deduped_urls, P) IN
          sent' = {with_content[k] : k \in 1..Len(with_content)}
    /\ \/ /\ Len(batch_jobs) < MaxJobs
          /\ batch_jobs' =
                Append(batch_jobs, [batch_id |-> GeminiId(now), created_at |-> now])
          /\ now' = now + 1
          /\ \/ /\ stage' = "returned"
                /\ UNCHANGED exc
             \/ /\ stage' = "except"
                /\ exc' = TRUE
       \/ /\ stage' = "except"
          /\ exc' = TRUE
          /\ UNCHANGED <<batch_jobs, now>>
    /\ UNCHANGED <<client, seen_urls, ledger_op>>
    /\ UNCHANGED <<openai_batches, applied, bpc, batch_id, run_before, poll>>
    /\ UNCHANGED <<url_data, sent_before, logged>>
    /\ UNCHANGED <<vecVars, urlVars, parseVars, fileVars>>

\* Variant of the except clause of process: the error is logged and process
\* returns.
ProcessExceptSwallow ==
    /\ stage = "except"
    /\ logged' = TRUE
    /\ stage' = "returned"
    /\ UNCHANGED <<url_data, sent, sent_before, exc>>
    /\ UNCHANGED <<vecVars, urlVars, ledgerVars, jobVars, parseVars, fileVars>>

\* process(), lines 86-88: `except Exception as e: logger.error(...); raise`.
ProcessExcept ==
    /\ stage = "except"
    /\ logged' = TRUE
    /\ stage' = "raised"
    /\ UNCHANGED <<url_data, sent, sent_before, exc>>
    /\ UNCHANGED <<vecVars, urlVars, ledgerVars, jobVars, parseVars, fileVars>>

\* ---------------------------------------------------------- specifications
InitFileOff ==
    /\ reader = "off"
    /\ result_file = <<>>
    /\ file_ideas = <<>>
    /\ rpc = "off"

InitRunOff ==
    /\ stage = "off"
    /\ url_data = <<>>
    /\ sent = {}
    /\ sent_before = {}
    /\ exc = FALSE
    /\ logged = FALSE

InitRestOff == InitFileOff /\ InitRunOff

InitLedgerOff ==
    /\ client = "off"
    /\ seen_urls = EmptyTable
    /\ now = 0
    /\ ledger_op = NoLedgerOp

InitJobsOff ==
    /\ batch_jobs = <<>>
    /\ openai_batches = <<>>
    /\ applied = <<>>
    /\ bpc = "off"
    /\ batch_id = 0
    /\ run_before = <<>>
    /\ poll = [p \in Procs |-> NoPoll]

InitParseOff ==
    /\ mode = "off"
    /\ responses = <<>>
    /\ parsed = <<>>
    /\ pnext = 0
    /\ resolved = {}
    /\ ppc = "off"

InitUrlOff ==
    /\ feed_links = <<>>
    /\ seen_urls_hash = {}
    /\ new_urls = <<>>
    /\ deduped_urls = <<>>
    /\ refiltered_urls = <<>>
    /\ fpc = "off"

InitVec ==
    /\ index = [t \in Titles |-> NoEntry]
    /\ notion = EmptyBag
    /\ pc = [p \in Procs |-> "idle"]
    /\ todo = [p \in Procs |-> 0]
    /\ idea = [p \in Procs |-> NoIdea]
    /\ query_result = [p \in Procs |-> <<>>]
    /\ match_ = [p \in Procs |-> 0]
    /\ calls = [p \in Procs |-> <<>>]

Init ==
    /\ InitVec
    /\ InitUrlOff
    /\ InitLedgerOff
    /\ InitJobsOff
    /\ InitParseOff
    /\ InitRestOff

\* One pipeline run at a time (the reference design: a strictly sequential loop).
Next == Step(1)

Spec == Init /\ [][Next]_vars

\* The URL filter applied to a list of feed links and a Ledger content.
InitFilter ==
    /\ InitVec
    /\ feed_links \in FeedInputs
    /\ seen_urls_hash \in SUBSET Fingerprints
    /\ new_urls = <<>>
    /\ deduped_urls = <<>>
    /\ refiltered_urls = <<>>
    /\ fpc = "fetched"
    /\ InitLedgerOff
    /\ InitJobsOff
    /\ InitParseOff
    /\ InitRestOff

NextFilter == ProcessDeduplicate \/ ProcessFilterSeen \/ ProcessFilterAgain

SpecFilter == InitFilter /\ [][NextFilter]_vars

\* Two pipeline runs on the same vector index and record store, their
\* collaborator calls interleaved in any order.
ConcurrentStep(p) ==
    \/ StartConcurrentRun(p)
    \/ NextIdea(p)
    \/ Query(p)
    \/ HandleSimilarIdeas(p)
    \/ NotionUpdateIdeaCount(p)
    \/ AddNewIdeaToDb(p)
    \/ NotionCreateIdea(p)
    \/ Return(p)

NextConcurrent == \E p \in Procs : ConcurrentStep(p)

SpecConcurrent == Init /\ [][NextConcurrent]_vars

\* The Ledger under one of its two clients, from an empty table.
InitLedger ==
    /\ InitVec
    /\ InitUrlOff
    /\ client \in {"mongo", "sqlite"}
    /\ seen_urls = EmptyTable
    /\ now = 0
    /\ ledger_op = NoLedgerOp
    /\ InitJobsOff
    /\ InitParseOff
    /\ InitRestOff

NextLedger ==
    \/ Tick
    \/ BulkInsertSeenUrls
    \/ BulkDeleteSeenUrls
    \/ SQLiteBulkInsertSeenUrls
    \/ SQLiteBulkDeleteSeenUrls

SpecLedger == InitLedger /\ [][NextLedger]_vars

\* Batch mode: the publisher runs (process in batch mode) and the subscriber
\* (openai_subscriber.main, with the process_idea_vectors it calls).
InitBatch ==
    /\ InitVec
    /\ InitUrlOff
    /\ InitLedgerOff
    /\ batch_jobs = <<>>
    /\ openai_batches = <<>>
    /\ applied = <<>>
    /\ bpc = "idle"
    /\ batch_id = 0
    /\ run_before = <<>>
    /\ poll = [p \in Procs |-> NoPoll]
    /\ InitParseOff
    /\ InitRestOff

NextBatch ==
    \/ ProcessBatchMode
    \/ SubmitBatchJob
    \/ CreateBatchJob
    \/ BatchCompletes
    \/ SubscriberMain(1)
    \/ NextIdea(1)
    \/ Query(1)
    \/ HandleSimilarIdeas(1)
    \/ NotionUpdateIdeaCount(1)
    \/ AddNewIdeaToDb(1)
    \/ NotionCreateIdea(1)
    \/ Return(1)

SpecBatch == InitBatch /\ [][NextBatch]_vars

\* The extraction of ideas from the AI responses to the URLs of one run, and
\* the reads of their fields by process_idea_vectors.
InitExtraction ==
    /\ InitVec
    /\ InitUrlOff
    /\ InitLedgerOff
    /\ InitJobsOff
    /\ mode \in {"gemini", "openai"}
    /\ responses \in [ResponseUrls -> ResponseLists]
    /\ parsed = <<>>
    /\ pnext = 0
    /\ resolved = {}
    /\ ppc = "extract"
    /\ InitRestOff

NextExtraction ==
    \/ ExtractIdeas
    \/ ReadIdeaFields
    \/ ResolveRawIdea
    \/ ExtractionReturn

SpecExtraction == InitExtraction /\ [][NextExtraction]_vars

\* save_and_parse_results, of OpenAIService or of fetch_batch_status, on a
\* result file.
InitResultFile ==
    /\ InitVec
    /\ InitUrlOff
    /\ InitLedgerOff
    /\ InitJobsOff
    /\ InitParseOff
    /\ reader \in {"OpenAIService", "fetch_batch_status"}
    /\ result_file \in ResultFiles
    /\ file_ideas = <<>>
    /\ rpc = "fetched"
    /\ InitRunOff

NextResultFile == SaveAndParseResults \/ LegacySaveAndParseResults

SpecResultFile == InitResultFile /\ [][NextResultFile]_vars

\* Pipeline runs in synchronous mode, one after another, on the Ledger and the
\* job table.
InitPipeline ==
    /\ InitVec
    /\ InitUrlOff
    /\ client = "mongo"
    /\ seen_urls = EmptyTable
    /\ now = 0
    /\ ledger_op = NoLedgerOp
    /\ InitJobsOff
    /\ InitParseOff
    /\ InitFileOff
    /\ stage = "idle"
    /\ url_data = <<>>
    /\ sent = {}
    /\ sent_before = {}
    /\ exc = FALSE
    /\ logged = FALSE

NextPipeline ==
    \/ ProcessFetchFeeds
    \/ ProcessFetchSeenUrls
    \/ ProcessExtractUrlMetadata
    \/ ProcessBulkInsertSeenUrls
    \/ ProcessSynchronous
    \/ ProcessExcept

SpecPipeline == InitPipeline /\ [][NextPipeline]_vars

\* The records a URL of the feeds can have left in the Ledger when the runs
\* of eight and of seven days ago admitted it.
OldRecords(h) ==
    {Absent} \cup {[url |-> u, created_at |-> t] : u \in {v \in PipelineUrls : hash_url(v) = h},
                                                   t \in 0..1}

\* Pipeline runs in synchronous mode and the purge, on the Ledger as the runs
\* of day 0 and day 1 left it, on day 8; those runs gave the content of the
\* URLs they recorded to the AI service.
InitRetention ==
    /\ InitVec
    /\ InitUrlOff
    /\ client = "mongo"
    /\ seen_urls \in {t \in [LedgerHashes -> UNION {OldRecords(h) : h \in LedgerHashes}] :
                         \A h \in LedgerHashes : t[h] \in OldRecords(h)}
    /\ now = RETENTION_DAYS + 1
    /\ ledger_op = NoLedgerOp
    /\ InitJobsOff
    /\ InitParseOff
    /\ InitFileOff
    /\ stage = "idle"
    /\ url_data = <<>>
    /\ sent = {}
    /\ sent_before = {seen_urls[h].url : h \in FetchSeenUrlsHash(seen_urls)}
    /\ exc = FALSE
    /\ logged = FALSE

NextRetention ==
    \/ NextPipeline
    \/ BulkDeleteSeenUrls

SpecRetention == InitRetention /\ [][NextRetention]_vars

\* Two pipeline runs, interleaved, on an index and a record store that hold
\* one idea, stored by an earlier run.
InitSharedEntry ==
    /\ index = [t \in Titles |->
                   IF t = "A" THEN [count |-> 1, emb |-> 1, title |-> "A"] ELSE NoEntry]
    /\ notion = SetToBag({[title |-> "A", count |-> 1]})
    /\ pc = [p \in Procs |-> "idle"]
    /\ todo = [p \in Procs |-> 0]
    /\ idea = [p \in Procs |-> NoIdea]
    /\ query_result = [p \in Procs |-> <<>>]
    /\ match_ = [p \in Procs |-> 0]
    /\ calls = [p \in Procs |-> <<>>]
    /\ InitUrlOff
    /\ InitLedgerOff
    /\ InitJobsOff
    /\ InitParseOff
    /\ InitRestOff

SpecSharedEntry == InitSharedEntry /\ [][NextConcurrent]_vars

\* Pipeline runs of both modes, one run at a time, on the same job table, and
\* the subscriber at any time between their steps.
InitMixedModes ==
    /\ InitVec
    /\ InitUrlOff
    /\ InitLedgerOff
    /\ batch_jobs = <<>>
    /\ openai_batches = <<>>
    /\ applied = <<>>
    /\ bpc = "idle"
    /\ batch_id = 0
    /\ run_before = <<>>
    /\ poll = [p \in Procs |-> NoPoll]
    /\ InitParseOff
    /\ InitFileOff
    /\ stage = "idle"
    /\ url_data = <<>>
    /\ sent = {}
    /\ sent_before = {}
    /\ exc = FALSE
    /\ logged = FALSE

NextMixedModes ==
    \/ /\ stage \in {"idle", "returned", "raised"}
       /\ (ProcessBatchMode \/ SubmitBatchJob \/ CreateBatchJob)
    \/ /\ bpc \in {"idle", "done", "raised"}
       /\ (ProcessSynchronousMode \/ ProcessSynchronous \/ ProcessExcept)
    \/ BatchCompletes
    \/ SubscriberMain(1)
    \/ SubscriberMainUnknownBatch(1)
    \/ NextIdea(1)
    \/ Query(1)
    \/ HandleSimilarIdeas(1)
    \/ NotionUpdateIdeaCount(1)
    \/ AddNewIdeaToDb(1)
    \/ NotionCreateIdea(1)
    \/ Return(1)

SpecMixedModes == InitMixedModes /\ [][NextMixedModes]_vars

\* ------------------------------------------------------------------ claims
\* Positions of the calls of one kind in the log of the current idea.
CallsOf(p, ops) == {k \in 1..Len(calls[p]) : calls[p][k].op \in ops}

IndexWrites == {"index.update", "index.upsert"}
NotionWrites == {"notion.update", "notion.create"}

\* The last call issued for the current idea (a record that is no call when
\* there is none).
LastCall(p) ==
    IF calls[p] = <<>> THEN Call("", "", 0, TRUE, 0) ELSE calls[p][Len(calls[p])]

\* Positions of the matches whose score exceeds 0.75.
Over(matches) == {k \in 1..Len(matches) : matches[k].score > 75}

\* The resolver has decided for the current idea.
Decided(p) == CallsOf(p, {"query"}) # {} /\ pc[p] # "handle"

\* The current idea took the Merge path / the New path.
Merged(p) == CallsOf(p, {"index.update"}) # {}
AddedNew(p) == CallsOf(p, {"index.upsert"}) # {}

\* C1: on the Merge path an entry that holds count N is written back with count
\* N+1, and the record store is told to set the page of the matched title to
\* that same N+1, whatever the page held before; the page then shows N+1.
C1_MergeSetsCount ==
    \A p \in Procs : \A k \in 1..Len(calls[p]) :
        LET c == calls[p][k] IN
        /\ (c.op = "index.update" /\ c.ok) =>
              /\ c.prev >= 1
              /\ c.count = c.prev + 1
              /\ index[c.id].count = c.prev + 1
        /\ c.op = "notion.update" =>
              /\ k > 1
              /\ calls[p][k - 1].op = "index.update"
              /\ c.count = calls[p][k - 1].prev + 1
              /\ c.id = index[calls[p][k - 1].id].title
        /\ (c.op = "notion.update" /\ c.ok) =>
              CopiesIn([title |-> c.id, count |-> index[c.id].count], notion) >= 1

\* C1 witness: a merge from N = 2 to 3 has set a page that lagged at 1.
C1_Witness ==
    \E k \in 1..Len(calls[1]) :
        /\ calls[1][k].op = "notion.update"
        /\ calls[1][k].ok
        /\ calls[1][k].count = 3
        /\ calls[1][k].prev = 1

\* C2: under sequential runs no two entries of the vector index have
\* embeddings whose cosine similarity exceeds 0.75.
C2_NoSimilarPair ==
    \A s, t \in Present(index) :
        s # t => Sim(index[s].emb, index[t].emb) <= 75

\* C2 witness: with two entries stored, an idea similar to one of them has
\* been absorbed into its count.
C2_Witness ==
    /\ Cardinality(Present(index)) = 2
    /\ LastCall(1).op = "index.update"
    /\ LastCall(1).ok
    /\ Sim(idea[1].emb, index[LastCall(1).id].emb) \in 76..99

\* C3: the resolver merges exactly when some returned match scores above 0.75,
\* into the first such match in the returned order; when every score is at most
\* 0.75 the idea is New and neither index.update nor the record-store update
\* is issued.
C3_ResolverDecision ==
    \A p \in Procs :
        Decided(p) =>
            LET qr == query_result[p] IN
            /\ Merged(p) <=> Over(qr) # {}
            /\ Merged(p) =>
                  /\ match_[p] \in Over(qr)
                  /\ \A j \in Over(qr) : match_[p] <= j
                  /\ \A k \in CallsOf(p, {"index.update"}) :
                        calls[p][k].id = qr[match_[p]].id
                  /\ pc[p] \in {"notion_update", "loop", "idle", "raised"}
            /\ ~Merged(p) =>
                  /\ CallsOf(p, {"notion.update"}) = {}
                  /\ match_[p] = 0
                  /\ pc[p] \in {"add", "notion_create", "loop", "idle", "raised"}

\* C3 witness: a match scoring exactly 0.75 was returned and the idea is New.
C3_Witness ==
    /\ pc[1] = "add"
    /\ \E k \in 1..Len(query_result[1]) : query_result[1][k].score = 75

\* C4 as stated: the idea is merged into the returned match of highest score,
\* whatever the order of the matches.
C4_HighestScore ==
    \A p \in Procs :
        (Decided(p) /\ Merged(p)) =>
            \A k \in 1..Len(query_result[p]) :
                query_result[p][k].score <= query_result[p][match_[p]].score

\* The matches are in descending order of score.
Descending(matches) ==
    \A j, k \in 1..Len(matches) : j < k => matches[j].score >= matches[k].score

\* C4 amended: the idea is merged into the first returned match above the
\* threshold (no earlier match is above it); that match has the highest score
\* when the index returned the matches in descending order of score.
C4_FirstInOrder ==
    \A p \in Procs :
        (Decided(p) /\ Merged(p)) =>
            LET qr == query_result[p] IN
            /\ qr[match_[p]].score > 75
            /\ \A j \in 1..(match_[p] - 1) : qr[j].score <= 75
            /\ Descending(qr) =>
                  \A k \in 1..Len(qr) : qr[k].score <= qr[match_[p]].score

\* C4 witness: two matches above the threshold, the lower one returned first
\* and merged into.
C4_Witness ==
    /\ pc[1] = "notion_update"
    /\ Len(query_result[1]) = 2
    /\ query_result[1][1].score = 81
    /\ query_result[1][2].score = 90
    /\ match_[1] = 1

\* C5: on the New path (no returned match above the threshold) one entry is
\* upserted under the idea's title with count 1, then one page with Count 1 is
\* created; no index.update and no record-store update is issued for the idea.
C5_NewPath ==
    \A p \in Procs :
        (Decided(p) /\ Over(query_result[p]) = {} /\ pc[p] # "add") =>
            LET ups == CallsOf(p, {"index.upsert"})
                crs == CallsOf(p, {"notion.create"})
            IN
            /\ CallsOf(p, {"index.update", "notion.update"}) = {}
            /\ Cardinality(ups) = 1
            /\ \A k \in ups :
                  /\ calls[p][k].id = idea[p].title
                  /\ calls[p][k].count = 1
                  /\ calls[p][k].ok =>
                        /\ index[idea[p].title] =
                              [count |-> 1, emb |-> idea[p].emb, title |-> idea[p].title]
                        /\ pc[p] # "notion_create" => crs = {k + 1}
            /\ \A k \in crs :
                  /\ calls[p][k].id = idea[p].title
                  /\ calls[p][k].count = 1
                  /\ calls[p][k].ok =>
                        CopiesIn([title |-> idea[p].title, count |-> 1], notion) >= 1

\* C5 witness: a New idea went through both writes.
C5_Witness ==
    /\ pc[1] = "loop"
    /\ Len(calls[1]) = 4
    /\ calls[1][3].op = "index.upsert" /\ calls[1][3].ok
    /\ calls[1][4].op = "notion.create" /\ calls[1][4].ok

\* C6: a record-store call is issued only after the vector-index write of the
\* same idea returned; when the vector-index write raises, no record-store
\* call follows and the exception leaves process_idea_vectors.
C6_IndexBeforeRecordStore ==
    \A p \in Procs : \A k \in 1..Len(calls[p]) :
        LET c == calls[p][k] IN
        /\ c.op \in NotionWrites =>
              /\ k > 1
              /\ calls[p][k - 1].op \in IndexWrites
              /\ calls[p][k - 1].ok
              /\ (c.op = "notion.update") <=> (calls[p][k - 1].op = "index.update")
        /\ (c.op \in IndexWrites /\ ~c.ok) =>
              /\ k = Len(calls[p])
              /\ pc[p] = "raised"

\* C6 witness: index.upsert raised.
C6_Witness ==
    /\ pc[1] = "raised"
    /\ LastCall(1).op = "index.upsert"
    /\ ~LastCall(1).ok

\* C7: when the record-store write fails, the vector-index write made for the
\* idea stays as written, no exception leaves the loop, and the loop goes on
\* with the ideas that remain.
C7_RecordStoreFailureTolerated ==
    \A p \in Procs :
        (LastCall(p).op \in NotionWrites /\ ~LastCall(p).ok) =>
            LET w == calls[p][Len(calls[p]) - 1] IN
            /\ pc[p] \in {"loop", "idle"}
            /\ w.op \in IndexWrites /\ w.ok
            /\ index[w.id].count = w.count
            /\ (pc[p] = "loop" /\ todo[p] > 0) => ENABLED NextIdea(p)
            /\ (pc[p] = "loop" /\ todo[p] = 0) => ENABLED Return(p)

\* C7 witness: pages.create failed while ideas remain in the list.
C7_Witness ==
    /\ LastCall(1).op = "notion.create"
    /\ ~LastCall(1).ok
    /\ todo[1] > 0
    /\ pc[1] = "loop"
    /\ index[idea[1].title].count = 1

\* C8 as stated: for every title the count shown by the record store is at
\* most the count stored in the vector index.
C8_MirrorNeverAhead ==
    \A pg \in BagToSet(notion) : pg.count <= index[pg.title].count

\* C9 as stated: a vector-index write that raises aborts only its idea; the
\* loop goes on with the ideas that come after it.
C9_WriteFailureSkipsOneIdea ==
    \A p \in Procs :
        (LastCall(p).op \in IndexWrites /\ ~LastCall(p).ok /\ todo[p] > 0) =>
            pc[p] = "loop"

\* Positions of the input whose URL is the first of its fingerprint and whose
\* fingerprint is not in the Ledger.
KeptPositions(links, seen) ==
    {k \in 1..Len(links) :
        /\ hash_url(links[k]) \notin seen
        /\ \A j \in 1..(k - 1) : hash_url(links[j]) # hash_url(links[k])}

\* The m-th smallest element of a set of positions.
Nth(S, m) == CHOOSE k \in S : Cardinality({j \in S : j <= k}) = m

\* C10: the filter returns exactly the input's first occurrences of the
\* fingerprints that are not in the Ledger, in input order; ten links with
\* three repeats and two Ledger hits give five.
C10_FilterResult ==
    fpc = "filtered" =>
        LET K == KeptPositions(feed_links, seen_urls_hash) IN
        /\ Len(deduped_urls) = Cardinality(K)
        /\ \A m \in 1..Len(deduped_urls) : deduped_urls[m] = feed_links[Nth(K, m)]
        /\ (/\ feed_links = TenLinks
            /\ Cardinality({hash_url(feed_links[k]) : k \in 1..10} \cap seen_urls_hash) = 2)
              => Len(deduped_urls) = 5

\* C10 witness: the ten links filtered against a Ledger that holds two of
\* their fingerprints.
C10_Witness ==
    /\ fpc = "filtered"
    /\ feed_links = TenLinks
    /\ seen_urls_hash = {hash_url(4), hash_url(6)}
    /\ deduped_urls = <<1, 2, 3, 5, 7>>

\* C11: the URL filter is idempotent: run on its own output against the same
\* Ledger snapshot it returns that output unchanged, same elements, same order.
C11_FilterIdempotent ==
    fpc = "refiltered" => refiltered_urls = deduped_urls

\* C11 witness: the filter has dropped repeats and Ledger hits from the ten
\* links, and its second run returned the five survivors again.
C11_Witness ==
    /\ fpc = "refiltered"
    /\ feed_links = TenLinks
    /\ seen_urls_hash = {hash_url(4), hash_url(6)}
    /\ refiltered_urls = <<1, 2, 3, 5, 7>>

\* C15: an index entry exists with count >= 1; an entry that appears has count
\* 1; a count goes up only in the Merge step (index.update of the matched
\* entry), and then by exactly 1.
C15_CountLifecycle ==
    /\ [](\A t \in Titles : index[t] # NoEntry => index[t].count >= 1)
    /\ [][\A t \in Titles :
            /\ (index[t] = NoEntry /\ index'[t] # NoEntry) =>
                  /\ index'[t].count = 1
                  /\ \E p \in Procs : pc[p] = "add" /\ idea[p].title = t
            /\ (index[t] # NoEntry /\ index'[t].count > index[t].count) =>
                  /\ index'[t].count = index[t].count + 1
                  /\ \E p \in Procs :
                        /\ pc[p] = "handle"
                        /\ pc'[p] = "notion_update"
                        /\ query_result[p][match_'[p]].id = t]_vars

\* C15 witness: a merge has raised an entry from 2 to 3.
C15_Witness ==
    /\ LastCall(1).op = "index.update"
    /\ LastCall(1).ok
    /\ LastCall(1).prev = 2
    /\ index[LastCall(1).id].count = 3

\* C16: on a Merge the record-store call is update_idea_count under the title
\* stored in the matched entry, and the page updated carries that title; no
\* index.upsert and no pages.create is issued for the incoming idea.
C16_MergeTouchesMatchedOnly ==
    \A p \in Procs :
        Merged(p) =>
            LET m == query_result[p][match_[p]] IN
            /\ CallsOf(p, {"index.upsert", "notion.create"}) = {}
            /\ \A k \in CallsOf(p, {"index.update"}) : calls[p][k].id = m.id
            /\ \A k \in CallsOf(p, {"notion.update"}) :
                  /\ calls[p][k].id = m.title
                  /\ calls[p][k].id = index[m.id].title
                  /\ calls[p][k].ok =>
                        CopiesIn([title |-> m.title, count |-> calls[p][k].count],
                                 notion) >= 1

\* C16 witness: an idea titled otherwise than the entry it matched has been
\* merged and the page of the matched title updated.
C16_Witness ==
    /\ pc[1] = "loop"
    /\ LastCall(1).op = "notion.update"
    /\ LastCall(1).ok
    /\ idea[1].title # LastCall(1).id
    /\ index[idea[1].title] = NoEntry

\* C19: an idea for which create_embedding returns no vector causes no
\* index.query, no index write and no record-store write, and the loop goes on
\* with the next idea (or returns when none is left).
C19_NoEmbeddingSkipsIdea ==
    \A p \in Procs :
        (calls[p] # <<>> /\ calls[p][1].op = "create_embedding" /\ ~calls[p][1].ok) =>
            /\ Len(calls[p]) = 1
            /\ query_result[p] = <<>>
            /\ pc[p] \in {"loop", "idle"}
            /\ (pc[p] = "loop" /\ todo[p] > 0) => ENABLED NextIdea(p)
            /\ (pc[p] = "loop" /\ todo[p] = 0) => ENABLED Return(p)

\* C19 witness: the embedding of an idea failed while the index holds an entry
\* and another idea is left in the list.
C19_Witness ==
    /\ pc[1] = "loop"
    /\ LastCall(1).op = "create_embedding"
    /\ ~LastCall(1).ok
    /\ todo[1] > 0
    /\ Present(index) # {}

\* C17: the purge deletes exactly the records whose created_at is strictly
\* older than the time of the call minus 7 days; a record at the cutoff and
\* every younger record is kept as it was.
C17_PurgeStrictlyOlder ==
    ledger_op.op = "bulk_delete" =>
        \A h \in LedgerHashes :
            LET b == ledger_op.before[h] IN
            /\ (b # Absent /\ b.created_at < ledger_op.at - 7) => seen_urls[h] = Absent
            /\ (b # Absent /\ b.created_at >= ledger_op.at - 7) => seen_urls[h] = b
            /\ b = Absent => seen_urls[h] = Absent

\* C17 witness: a purge has deleted a record of 8 days and kept one of exactly
\* 7 days.
C17_Witness ==
    /\ ledger_op.op = "bulk_delete"
    /\ \E g, h \in LedgerHashes :
          /\ ledger_op.before[g].created_at = ledger_op.at - 8
          /\ seen_urls[g] = Absent
          /\ ledger_op.before[h].created_at = ledger_op.at - 7
          /\ seen_urls[h] = ledger_op.before[h]

\* The contract of a bulk insert, read off the last operation: it did not
\* raise, held records are as before, every url_hash of the list is held, a
\* url_hash that was absent holds the first document of the list that carries
\* it, and inserting the list once more changes nothing.
BulkInsertContract ==
    LET l == ledger_op.arg IN
    /\ ~ledger_op.raised
    /\ \A h \in LedgerHashes :
          /\ ledger_op.before[h] # Absent => seen_urls[h] = ledger_op.before[h]
          /\ (ledger_op.before[h] = Absent /\ \A k \in 1..Len(l) : l[k].url_hash # h) =>
                seen_urls[h] = Absent
    /\ \A k \in 1..Len(l) :
          (/\ ledger_op.before[l[k].url_hash] = Absent
           /\ \A j \in 1..(k - 1) : l[j].url_hash # l[k].url_hash) =>
              /\ seen_urls[l[k].url_hash].created_at = ledger_op.at
              /\ client = "mongo" => seen_urls[l[k].url_hash].url = l[k].url
    /\ client = "mongo" => InsertMany(seen_urls, Documents(l, now), 1, 0).table = seen_urls
    /\ client = "sqlite" =>
          LET r == ExecuteMany(seen_urls, [k \in 1..Len(l) |-> l[k].url_hash], 1, now)
          IN  ~r.raised /\ r.table = seen_urls

\* C18 as stated: every Ledger bulk insert keeps the contract.
C18_BulkInsertIdempotent ==
    ledger_op.op = "bulk_insert" => BulkInsertContract

\* The part of C18 that holds: bulk_insert_seen_urls of MongoDBClient keeps
\* the contract.
MongoBulkInsertIdempotent ==
    (client = "mongo" /\ ledger_op.op = "bulk_insert") => BulkInsertContract

\* C12 as stated: over any number of invocations of the subscriber, the batch
\* it fetches is a recorded one, the results of a batch are handed on at most
\* once, and so an entry's count never exceeds the number of batches whose
\* result file holds its idea.
C12_ResultsAppliedOnce ==
    /\ \A p \in Procs :
          poll[p].batch_id # 0 =>
              \E k \in 1..Len(batch_jobs) : batch_jobs[k].batch_id = poll[p].batch_id
    /\ \A id \in 1..Len(applied) : applied[id] <= 1
    /\ \A t \in Present(index) :
          index[t].count <=
              Cardinality({id \in 1..Len(openai_batches) : ResultIdea(id).title = t})

\* C20 as stated: every batch-mode run that ends without raising has appended
\* exactly one record, holding the id submit_batch_job returned; a run that
\* has not yet submitted, or that raised, has written none; the records the
\* run found are in place, unchanged.
C20_OneRecordPerRun ==
    /\ Len(batch_jobs) >= Len(run_before)
    /\ SubSeq(batch_jobs, 1, Len(run_before)) = run_before
    /\ bpc \in {"submit", "store", "raised"} => batch_jobs = run_before
    /\ bpc = "done" =>
          /\ Len(batch_jobs) = Len(run_before) + 1
          /\ batch_jobs[Len(batch_jobs)].batch_id = batch_id
          /\ batch_id \in 1..Len(openai_batches)

\* C20 amended: a run that had new URLs and ended without raising has appended
\* exactly one record, holding the id submit_batch_job returned; a run with no
\* new URL, a run that has not yet submitted and a run that raised (in
\* submit_batch_job or in create_batch_job) have written none; the records the
\* run found are in place, unchanged.
C20_OneRecordPerSubmittedRun ==
    /\ Len(batch_jobs) >= Len(run_before)
    /\ SubSeq(batch_jobs, 1, Len(run_before)) = run_before
    /\ bpc \in {"submit", "store", "raised"} => batch_jobs = run_before
    /\ (bpc = "done" /\ deduped_urls = <<>>) => batch_jobs = run_before
    /\ (bpc = "done" /\ deduped_urls # <<>>) =>
          /\ Len(batch_jobs) = Len(run_before) + 1
          /\ batch_jobs[Len(batch_jobs)].batch_id = batch_id
          /\ batch_id \in 1..Len(openai_batches)

\* C20 witness: a second run has appended its record behind the record of the
\* first.
C20_Witness ==
    /\ bpc = "done"
    /\ Len(run_before) = 1
    /\ Len(batch_jobs) = 2
    /\ batch_jobs[1] = run_before[1]
    /\ batch_jobs[2].batch_id = batch_id
    /\ batch_id # batch_jobs[1].batch_id

\* C13: nothing makes the query and the write of a run exclusive. Two runs
\* that both stand before their upsert can each go on; and when both queried
\* before either wrote (both were returned no match) and both upserts have
\* returned, under different titles, both entries are in the index, each with
\* count 1 and its own embedding, however similar the two are.
C13_NoSingleWriter ==
    \A p, q \in Procs :
        p # q =>
            /\ (pc[p] = "add" /\ pc[q] = "add") =>
                  ENABLED AddNewIdeaToDb(p) /\ ENABLED AddNewIdeaToDb(q)
            /\ (/\ query_result[p] = <<>> /\ query_result[q] = <<>>
                /\ LastCall(p).op = "index.upsert" /\ LastCall(p).ok
                /\ LastCall(q).op = "index.upsert" /\ LastCall(q).ok
                /\ idea[p].title # idea[q].title) =>
                  /\ index[idea[p].title] =
                        [count |-> 1, emb |-> idea[p].emb, title |-> idea[p].title]
                  /\ index[idea[q].title] =
                        [count |-> 1, emb |-> idea[q].emb, title |-> idea[q].title]

\* C13 witness: both runs queried the empty index, both judged their idea New,
\* both upserts returned, and the index holds two entries whose similarity is
\* above 0.75.
C13_Witness ==
    /\ query_result[1] = <<>> /\ query_result[2] = <<>>
    /\ LastCall(1).op = "index.upsert" /\ LastCall(1).ok
    /\ LastCall(2).op = "index.upsert" /\ LastCall(2).ok
    /\ idea[1].title # idea[2].title
    /\ Sim(idea[1].emb, idea[2].emb) > 75
    /\ Cardinality(Present(index)) = 2
    /\ ~C2_NoSimilarPair

\* The records of the responses that lack no field.
CompleteRecords ==
    {d \in UNION {{RawRecords(responses, r)[k] : k \in 1..Len(responses[r])} :
                      r \in ResponseUrls} : d.missing = "none"}

\* C14 as stated: a record that lacks a required field raises nothing fatal
\* and is never given to the resolver, and it alone is left out: when the run
\* is through, every complete record has been given to the resolver.
C14_IncompleteRecordExcluded ==
    /\ ppc # "raised"
    /\ \A d \in resolved : d.missing = "none"
    /\ ppc = "done" => resolved = CompleteRecords

\* The ideas of the lines that parse, in the order of the lines.
IdeasOfGoodLines(lines) ==
    LET Good == {k \in 1..Len(lines) : lines[k] = "ok"}
    IN  [m \in 1..Cardinality(Good) |-> [line |-> Nth(Good, m)]]

\* C21 as stated: save_and_parse_results never raises on a line that does not
\* parse, and returns the ideas of every other line.
C21_BadLineDroppedAlone ==
    /\ rpc # "raised"
    /\ rpc = "returned" => file_ideas = IdeasOfGoodLines(result_file)

\* The part of C21 that holds: save_and_parse_results of OpenAIService drops
\* the line that does not parse, alone.
ServiceDropsBadLineAlone ==
    reader = "OpenAIService" => C21_BadLineDroppedAlone

\* C22: an exception that reaches the try of process is logged and raised
\* again: process returns only when no exception has reached it, an exception
\* in flight can only go on to the except clause, and a run that raised has
\* logged the error.
C22_ProcessReraises ==
    /\ stage = "returned" => ~exc
    /\ exc => stage \in {"except", "raised"}
    /\ stage = "except" => ENABLED ProcessExcept
    /\ stage = "raised" => exc /\ logged
    /\ logged => stage = "raised"

\* C22 witness: an exception left process_idea_vectors after the job record
\* was stored, and process has logged the error and raised it again.
C22_Witness ==
    /\ stage = "raised"
    /\ logged
    /\ exc
    /\ sent # {}
    /\ batch_jobs # <<>>
    /\ batch_jobs[Len(batch_jobs)].created_at = now - 1

\* C23: update_idea_count for a title that has no page writes nothing to the
\* record store (no page is updated, none is created) and returns False; and
\* whenever it returns False, for a failed lookup as well, the record store is
\* as it was.
C23_UpdateOfMissingPage ==
    [][\A p \in Procs :
          (pc[p] = "notion_update" /\ pc'[p] # "notion_update") =>
              LET title == query_result[p][match_[p]].title
                  ret == calls'[p][Len(calls'[p])]
              IN  /\ ret.op = "notion.update"
                  /\ ret.id = title
                  /\ PagesOf(notion, title) = {} => (~ret.ok /\ notion' = notion)
                  /\ ~ret.ok => notion' = notion]_vars

\* C23 witness: the page of an entry was never created, a later idea was
\* merged into the entry, and update_idea_count found no page and returned
\* False.
C23_Witness ==
    /\ LastCall(1).op = "notion.update"
    /\ ~LastCall(1).ok
    /\ PagesOf(notion, LastCall(1).id) = {}
    /\ index[LastCall(1).id].count = 2

\* C25 as stated: no step replaces the vector of a stored entry or lowers its
\* count; in particular the upsert of the New path leaves an entry stored
\* under the idea's title as it is.
C25_NewNeverOverwrites ==
    [][\A t \in Titles :
          index[t] # NoEntry =>
              /\ index'[t].count >= index[t].count
              /\ index'[t].emb = index[t].emb]_vars

\* The sum of the counts of all entries of the index.
RECURSIVE SumCounts(_, _)
SumCounts(idx, S) ==
    IF S = {} THEN 0
    ELSE LET t == CHOOSE t \in S : TRUE IN idx[t].count + SumCounts(idx, S \ {t})

\* C26 as stated: every idea whose index write returns adds exactly 1 to the
\* sum of the counts (one new entry with count 1, or 1 more on one entry), and
\* nothing else changes the index; so a run without failure adds the number of
\* its ideas.
C26_Conservation ==
    [][/\ index' # index => SumCounts(index', Titles) = SumCounts(index, Titles) + 1
       /\ \A p \in Procs :
             (pc[p] \in {"handle", "add"} /\ pc'[p] \in {"notion_update", "notion_create"}) =>
                 SumCounts(index', Titles) = SumCounts(index, Titles) + 1]_vars

\* The URLs of a list.
Elems(seq) == {seq[k] : k \in 1..Len(seq)}

\* C24: the purge deletes the record of an old URL whole, so its fingerprint
\* is no longer among those fetch_seen_urls_hash returns; and the filter of a
\* run admits every URL of the feed whose fingerprint has no record when the
\* run fetches the fingerprints.
C24_PurgeReadmits ==
    /\ [](ledger_op.op = "bulk_delete" =>
            \A h \in LedgerHashes :
                (/\ ledger_op.before[h] # Absent
                 /\ ledger_op.before[h].created_at < ledger_op.at - RETENTION_DAYS) =>
                    /\ seen_urls[h] = Absent
                    /\ h \notin FetchSeenUrlsHash(seen_urls)
                    /\ \A u \in PipelineUrls :
                          hash_url(u) = h =>
                              deduplicate_urls_from_all_urls(
                                  <<u>>, FetchSeenUrlsHash(seen_urls)) = <<u>>)
    /\ [][(stage = "seen" /\ stage' \in {"metadata", "returned"}) =>
             /\ \A u \in Elems(feed_links) :
                   seen_urls[hash_url(u)] = Absent =>
                       \E v \in Elems(deduped_urls') : hash_url(v) = hash_url(u)
             /\ \A v \in Elems(deduped_urls') : seen_urls[hash_url(v)] = Absent
             /\ (deduped_urls' # <<>>) = (stage' = "metadata")]_vars

\* C24 witness: a URL was given to the AI service by an earlier run and had a
\* record; the purge deleted the record; a later run has admitted the URL and
\* given its content to the AI service again.
C24_Witness ==
    /\ stage = "returned"
    /\ ledger_op.op = "bulk_delete"
    /\ \E u \in sent \cap sent_before :
          /\ ledger_op.before[hash_url(u)] # Absent
          /\ seen_urls[hash_url(u)] = Absent
          /\ u \in Elems(deduped_urls)

\* The index.update call that returned, in the log of the current idea of p
\* (a record that is no call when there is none).
UpdateOf(p) ==
    IF \E k \in 1..Len(calls[p]) : calls[p][k].op = "index.update" /\ calls[p][k].ok
    THEN calls[p][CHOOSE k \in 1..Len(calls[p]) :
                      calls[p][k].op = "index.update" /\ calls[p][k].ok]
    ELSE Call("", "", 0, FALSE, 0)

\* C27 as stated: when the two runs have both merged an idea into the same
\* entry, which held count N before the first of the two writes, the entry
\* holds N+2.
C27_NoLostIncrement ==
    \A p, q \in Procs :
        (p # q /\ UpdateOf(p).ok /\ UpdateOf(q).ok /\ UpdateOf(p).id = UpdateOf(q).id) =>
            index[UpdateOf(p).id].count = Min(UpdateOf(p).prev, UpdateOf(q).prev) + 2

\* C28 as stated: the batch id main fetches is always an id submit_batch_job
\* returned (the id of a batch that exists at OpenAI), never the id a
\* synchronous-mode run stored.
C28_PolledIdWasSubmitted ==
    \A p \in Procs :
        poll[p].batch_id # 0 => poll[p].batch_id \in 1..Len(openai_batches)

\* C29 as stated: when a run has returned, every URL whose content it gave to
\* the AI service has its fingerprint in the Ledger, and (no purge being run)
\* no URL is given to the AI service by a run after an earlier run gave it.
C29_SentUrlsInLedger ==
    /\ stage = "returned" => \A u \in sent : seen_urls[hash_url(u)] # Absent
    /\ \A u \in sent, v \in sent_before : hash_url(u) # hash_url(v)

\* C30 as stated: when a run has ended, returning or raising, no URL is marked
\* as seen in the Ledger whose content was never given to the AI service.
C30_SeenImpliesProcessed ==
    stage \in {"returned", "raised"} =>
        \A h \in FetchSeenUrlsHash(seen_urls) :
            \E u \in sent \cup sent_before : hash_url(u) = h

====
